---- MODULE Spec2Model ----
(***************************************************************************)
(* Model of backend/app.py: the Flask handlers upload_and_process          *)
(* (/process-and-upload) and fetch_from_s3 (/fetch-from-s3), the MySQL     *)
(* tables they write and read, and the two object stores.                  *)
(*                                                                         *)
(* The database is what create_tables() makes on a stock MySQL server:     *)
(* transactional (InnoDB) tables, consistent non-locking reads that see    *)
(* committed rows only, strict SQL mode, and columns with the server's     *)
(* default collation, which compares strings case-insensitively.  pymysql  *)
(* connections start with autocommit off, and closing a connection without *)
(* commit rolls its transaction back.                                      *)
(*                                                                         *)
(* Numbers.  A JSON input number is an integer count of thousandths.  A    *)
(* DECIMAL(n,2) column value is an integer count of hundredths.  A         *)
(* computed DECIMAL and a published JSON number is a record [w, u]: w      *)
(* whole units plus u millionths, 0 <= u < 10^6 (value = w + u/10^6).      *)
(***************************************************************************)
EXTENDS Integers, Sequences, FiniteSets, TLC

(***************************************************************************)
(* Bounds of the model.                                                    *)
(***************************************************************************)
NumReqs == 2        \* concurrent /process-and-upload requests
NumCopies == 1      \* concurrent /fetch-from-s3 requests

Reqs == 1..NumReqs
Copies == 1..NumCopies

Null == "<None>"

(***************************************************************************)
(* Decimal arithmetic as MySQL does it on exact values.                    *)
(***************************************************************************)
Million == 10 ^ 6

DecNorm(w, u) == [w |-> w + (u \div Million), u |-> u % Million]
DecAdd(a, b) == DecNorm(a.w + b.w, a.u + b.u)
DecSub(a, b) == DecNorm(a.w - b.w, a.u - b.u)
\* a < n for a whole number n
DecLess(a, n) == a.w < n

\* a DECIMAL(n,2) column value (hundredths) as an exact decimal
OfCents(c) == [w |-> c \div 100, u |-> (c % 100) * 10000]
\* vehicle_damage * multiplier: hundredths times tenths gives thousandths
MulTenths(c, m10) == [w |-> (c * m10) \div 1000, u |-> ((c * m10) % 1000) * 1000]
\* base_premium * (discount / 100): discount / 100 has scale 2 + 4 and is
\* exact at four fractional digits; the product is exact at six.  The product
\* is taken on the whole units and the hundredths of base_premium apart.
MulPercent(c, d) ==
    LET D == c \div 100
        h == c % 100
    IN  DecAdd([w |-> (D * d) \div 10000, u |-> ((D * d) % 10000) * 100],
               [w |-> (h * d) \div Million, u |-> (h * d) % Million])

\* variant: the extra fractional digits are cut off
ToDecimal2Truncating(m) == m \div 10

\* INSERT of a number into a DECIMAL(n,2) column: rounded to two fractional
\* digits, half away from zero; the server notes the truncation and goes on
ToDecimal2(m) == IF m >= 0 THEN (m + 5) \div 10 ELSE -((5 - m) \div 10)

\* DECIMAL(5,2): three digits before the point; strict mode rejects the rest
MaxDiscount == 99999
OutOfRange52(c) == c > MaxDiscount \/ c < -MaxDiscount

(***************************************************************************)
(* String comparison under the columns' collation.  The tables are created *)
(* with no COLLATE clause, so = , CASE ... WHEN and IN compare under the   *)
(* server default, which ignores letter case.                              *)
(***************************************************************************)
Fold(s) ==
    CASE s = "HIGH" -> "high"
      [] s = "Low" -> "low"
      [] s = "Medium" -> "medium"
      [] OTHER -> s
SqlEq(a, b) == Fold(a) = Fold(b)
SqlIn(a, S) == \E b \in S : SqlEq(a, b)

(***************************************************************************)
(* The SELECT of step 3, one output row per policy row.                    *)
(***************************************************************************)
Threshold == 10000

\* CASE risk_factor WHEN 'low' THEN 1.0 WHEN 'medium' THEN 1.5
\*                  WHEN 'high' THEN 2.0 ELSE 1.0 END, in tenths
Multiplier(risk_factor) ==
    IF SqlEq(risk_factor, "low") THEN 10
    ELSE IF SqlEq(risk_factor, "medium") THEN 15
    ELSE IF SqlEq(risk_factor, "high") THEN 20
    ELSE 10

\* base_premium + (vehicle_damage * m) - (base_premium * (discount / 100))
Premium(base_premium, vehicle_damage, m10, discount) ==
    DecSub(DecAdd(OfCents(base_premium), MulTenths(vehicle_damage, m10)),
           MulPercent(base_premium, discount))

CalculatedPremium(row) ==
    Premium(row.base_premium, row.vehicle_damage,
            Multiplier(row.risk_factor), row.discount)

InsuranceGranted(row) ==
    IF DecLess(CalculatedPremium(row), Threshold)
       /\ SqlIn(row.risk_factor, {"low", "medium"})
    THEN "Granted"
    ELSE "Rejected"

\* the eight selected columns, in order
SelectRow(row) ==
    << row.policy_id, row.policy_type, row.base_premium, row.vehicle_damage,
       row.risk_factor, row.discount, CalculatedPremium(row),
       InsuranceGranted(row) >>

(***************************************************************************)
(* Step 4: one JSON object per fetched row.  float() of a DECIMAL and      *)
(* json.dumps of the float give the JSON number of the same value: every   *)
(* value here has at most 15 significant digits.                           *)
(***************************************************************************)
ToFloat(c) == OfCents(c)
\* float() of the computed DECIMAL, already an exact decimal
FloatOfDec(d) == DecNorm(d.w, d.u)

PolicyJson(t) ==
    [policy_id |-> t[1], policy_type |-> t[2],
     base_premium |-> ToFloat(t[3]), vehicle_damage |-> ToFloat(t[4]),
     risk_factor |-> t[5], discount |-> ToFloat(t[6]),
     calculated_premium |-> FloatOfDec(t[7]), insurance_granted |-> t[8]]

\* variant: the list is rebuilt for every row, so only the last one is kept
JsonDumpsLast(rows) ==
    IF rows = << >> THEN << >> ELSE << PolicyJson(rows[Len(rows)]) >>

JsonDumps(rows) == [i \in 1..Len(rows) |-> PolicyJson(rows[i])]

(***************************************************************************)
(* Input documents.  A JSON object is a function on its keys, so a missing *)
(* field is a key outside DOMAIN and subscripting it raises KeyError.      *)
(***************************************************************************)
Policy(id, type, bp, risk, vd, disc) ==
    [policy_id |-> id, policy_type |-> type, base_premium |-> bp,
     risk_factor |-> risk,
     customer_info |-> [name |-> "Ann", age |-> 40, address |-> "1 Main St"],
     vehicle_info |-> [make |-> "Kia", model |-> "Rio", year |-> 2020,
                       vehicle_damage |-> vd],
     coverage_info |-> [liability |-> 100000, collision |-> 50000,
                        comprehensive |-> 25000, discount |-> disc]]

Without(obj, key) == [k \in DOMAIN obj \ {key} |-> obj[k]]

PA == Policy("P-1", "comprehensive", 1000000, "low", 2000000, 10000)
PB == Policy("P-2", "third_party", 9000000, "medium", 3000000, 12346)

DocEmpty == [branches |-> << >>]
DocTwo == [branches |-> << [branch_id |-> "B1", policies |-> <<PA, PB>>] >>]
DocBroken ==
    [branches |-> << [branch_id |-> "B1", policies |-> <<PA>>],
                     [branch_id |-> "B2",
                      policies |-> <<Without(PB, "customer_info")>>] >>]
Docs == {DocEmpty, DocTwo, DocBroken}

\* one-policy documents over a grid of values, for the computation
RiskValues == {"low", "medium", "high", "HIGH", "Low", "extreme"}
PremiumValues == {500000, 1000000, 8000000, 9000000}
DamageValues == {100000, 1999990, 2000000, 3000000}
DiscountValues == {0, 10000, 50000, 12346}
CalcDocs ==
    { [branches |-> << [branch_id |-> "B1",
                        policies |-> <<Policy("P-9", "comprehensive", bp, rf, vd, dc)>>] >>] :
        bp \in PremiumValues, rf \in RiskValues,
        vd \in DamageValues, dc \in DiscountValues }
    \cup { [branches |-> << [policies |-> <<PA>>] >>],
           [branches |-> << [branch_id |-> "B1",
                             policies |-> <<PA, Policy("P-3", "fire", 1000000,
                                                       "low", 0, 1000000)>>] >>] }

(***************************************************************************)
(* Step 2: the statements of the nested loops, in execution order.         *)
(***************************************************************************)
Stmts == <<"policy", "customer_info", "vehicle_info", "coverage_info">>

\* branch.get('branch_id')
BranchId(branch) ==
    IF "branch_id" \in DOMAIN branch THEN branch.branch_id ELSE Null

RECURSIVE Flatten(_)
\* for branch in data['branches']: for policy in branch['policies']
Flatten(branches) ==
    IF branches = << >> THEN << >>
    ELSE LET branch == Head(branches)
         IN  [i \in 1..Len(branch.policies) |->
                 [branch_id |-> BranchId(branch), policy |-> branch.policies[i]]]
             \o Flatten(Tail(branches))

\* the nested objects an INSERT's argument tuple subscripts
KeysRead(stmt) ==
    CASE stmt = "policy" -> {"vehicle_info", "coverage_info"}
      [] stmt = "customer_info" -> {"customer_info"}
      [] stmt = "vehicle_info" -> {"vehicle_info"}
      [] stmt = "coverage_info" -> {"coverage_info"}

KeyError(policy, stmt) == \E k \in KeysRead(stmt) : k \notin DOMAIN policy

\* the server rejects the INSERT: NULL in a NOT NULL column, or a value out
\* of a DECIMAL(5,2) column's range (strict mode)
Rejected(item, stmt) ==
    \/ stmt = "policy" /\ item.branch_id = Null
    \/ stmt \in {"policy", "coverage_info"}
       /\ OutOfRange52(ToDecimal2(item.policy.coverage_info.discount))

\* the row an INSERT adds; batch names the transaction that wrote it
InsertedRow(r, item, stmt) ==
    LET policy == item.policy IN
    CASE stmt = "policy" ->
           [batch |-> r, policy_id |-> policy.policy_id,
            policy_type |-> policy.policy_type,
            base_premium |-> ToDecimal2(policy.base_premium),
            vehicle_damage |-> ToDecimal2(policy.vehicle_info.vehicle_damage),
            risk_factor |-> policy.risk_factor,
            discount |-> ToDecimal2(policy.coverage_info.discount),
            branch_id |-> item.branch_id]
      [] stmt = "customer_info" ->
           [batch |-> r, policy_id |-> policy.policy_id,
            name |-> policy.customer_info.name,
            age |-> policy.customer_info.age,
            address |-> policy.customer_info.address]
      [] stmt = "vehicle_info" ->
           [batch |-> r, policy_id |-> policy.policy_id,
            make |-> policy.vehicle_info.make,
            model |-> policy.vehicle_info.model,
            year |-> policy.vehicle_info.year,
            vehicle_damage |-> ToDecimal2(policy.vehicle_info.vehicle_damage)]
      [] stmt = "coverage_info" ->
           [batch |-> r, policy_id |-> policy.policy_id,
            liability |-> ToDecimal2(policy.coverage_info.liability),
            collision |-> ToDecimal2(policy.coverage_info.collision),
            comprehensive |-> ToDecimal2(policy.coverage_info.comprehensive),
            discount |-> ToDecimal2(policy.coverage_info.discount)]

(***************************************************************************)
(* The database: four tables of committed rows, and per connection the     *)
(* rows of its open transaction.                                           *)
(***************************************************************************)
TableNames == {"policy", "customer_info", "vehicle_info", "coverage_info"}
NoRows == [t \in TableNames |-> << >>]

\* variant: the commit replaces the tables' rows instead of adding to them
CommittedReplacing(tbls, tx) == tx

\* connection.commit(): the transaction's rows become visible, all at once
Committed(tbls, tx) == [t \in TableNames |-> tbls[t] \o tx[t]]

\* variant: every INSERT is committed as it runs, so a close keeps the rows
ClosedKeepingRows(tbls, tx) == [t \in TableNames |-> tbls[t] \o tx[t]]

\* connection.close() with the transaction open: the server rolls it back
ClosedWithoutCommit(tbls, tx) == tbls

RECURSIVE Uncommitted(_, _)
Uncommitted(txns, n) ==
    IF n = 0 THEN << >> ELSE Uncommitted(txns, n - 1) \o txns[n]["policy"]

\* variant: the SELECT also reads rows of transactions still open
VisibleDirty(tbls, txns, r) == tbls["policy"] \o Uncommitted(txns, NumReqs)

\* variant: the SELECT reads the rows of its own batch only
VisibleOwn(tbls, txns, r) ==
    LET mine(row) == row.batch = r IN SelectSeq(tbls["policy"], mine)

\* the rows of the policy table a SELECT on a fresh connection reads
Visible(tbls, txns, r) == tbls["policy"]

(***************************************************************************)
(* State.                                                                  *)
(***************************************************************************)
PublishKey == "insurance_data.json"
OtherKey == "report.json"
Keys == {PublishKey, OtherKey}

\* an object some other program left in store B
OldObject == << [policy_id |-> "legacy"] >>

VARIABLES
    s3_client,            \* TRUE when boto3.client() succeeded
    blob_service_client,  \* TRUE when BlobServiceClient was built: it is not
                          \* with the empty connection string of the source
    tables,               \* committed rows of the four tables
    s3,                   \* store A: key -> body, on the keys that exist
    blob,                 \* store B: key -> body, on the keys that exist
    pc,                   \* where each /process-and-upload request stands
    data,                 \* its parsed document
    cur,                  \* its place in the loops: item i, statement s
    txn,                  \* the uncommitted rows of its connection
    read_rows,            \* the policy rows its SELECT scanned
    at_select,            \* the batches committed, rolled back, in flight then
    processed_data,       \* cursor.fetchall()
    json_data,            \* the body it built for put_object
    response,             \* its HTTP response
    events,               \* the database and store calls it has made
    cpc,                  \* where each /fetch-from-s3 request stands
    file_key,
    file_data,
    cresponse,
    cevents

ingest_vars == << pc, data, cur, txn, read_rows, at_select, processed_data,
                  json_data, response, events >>
copy_vars == << cpc, file_key, file_data, cresponse, cevents >>
vars == << s3_client, blob_service_client, tables, s3, blob, pc, data, cur,
           txn, read_rows, at_select, processed_data, json_data, response,
           events, cpc, file_key, file_data, cresponse, cevents >>

NoResponse == [code |-> 0, stage |-> "none"]
Put(store, key, body) ==
    [k \in DOMAIN store \cup {key} |-> IF k = key THEN body ELSE store[k]]
NoObjects == [k \in {} |-> << >>]

Init ==
    /\ s3_client \in BOOLEAN
    /\ blob_service_client \in BOOLEAN
    /\ tables = NoRows
    /\ s3 = NoObjects
    /\ blob \in {NoObjects, [k \in Keys |-> OldObject]}
    /\ pc = [r \in Reqs |-> "idle"]
    /\ data = [r \in Reqs |-> DocEmpty]
    /\ cur = [r \in Reqs |-> [i |-> 1, s |-> 1]]
    /\ txn = [r \in Reqs |-> NoRows]
    /\ read_rows = [r \in Reqs |-> << >>]
    /\ at_select = [r \in Reqs |-> [committed |-> {}, aborted |-> {}, writing |-> {}]]
    /\ processed_data = [r \in Reqs |-> << >>]
    /\ json_data = [r \in Reqs |-> << >>]
    /\ response = [r \in Reqs |-> NoResponse]
    /\ events = [r \in Reqs |-> << >>]
    /\ cpc = [c \in Copies |-> "idle"]
    /\ file_key = [c \in Copies |-> OtherKey]
    /\ file_data = [c \in Copies |-> << >>]
    /\ cresponse = [c \in Copies |-> NoResponse]
    /\ cevents = [c \in Copies |-> << >>]

Has(log, e) == \E i \in 1..Len(log) : log[i] = e

(***************************************************************************)
(* /process-and-upload                                                     *)
(***************************************************************************)
Work(r) == Flatten(data[r].branches)

Respond(r, code, stage) ==
    response' = [response EXCEPT ![r] = [code |-> code, stage |-> stage]]

\* variant: the exception is swallowed and the handler goes on to step 3
AfterRollbackGoesOn == "select"

\* where the handler goes when the with-block raises: the outer except
\* returns the 500 response
AfterRollback == "done"

\* an exception inside the first with-block: db_connection closes the
\* connection in its finally, nothing was committed
Abort(r) ==
    /\ tables' = ClosedWithoutCommit(tables, txn[r])
    /\ txn' = [txn EXCEPT ![r] = NoRows]
    /\ events' = [events EXCEPT ![r] = Append(@, "rollback")]
    /\ Respond(r, 500, "store")
    /\ pc' = [pc EXCEPT ![r] = AfterRollback]
    /\ cur' = [cur EXCEPT ![r] = [i |-> 1, s |-> 1]]
    /\ UNCHANGED << s3_client, blob_service_client, s3, blob, data,
                    read_rows, at_select, processed_data, json_data, copy_vars >>

\* neither 'file' nor 'jsonData' in the request
NoData(r) ==
    /\ pc[r] = "idle"
    /\ pc' = [pc EXCEPT ![r] = "done"]
    /\ Respond(r, 400, "no_data")
    /\ UNCHANGED << s3_client, blob_service_client, tables, s3, blob, data, cur,
                    txn, read_rows, at_select, processed_data, json_data,
                    events, copy_vars >>

\* json.loads raises JSONDecodeError
InvalidJson(r) ==
    /\ pc[r] = "idle"
    /\ pc' = [pc EXCEPT ![r] = "done"]
    /\ Respond(r, 400, "invalid_json")
    /\ UNCHANGED << s3_client, blob_service_client, tables, s3, blob, data, cur,
                    txn, read_rows, at_select, processed_data, json_data,
                    events, copy_vars >>

Receive(r, doc) ==
    /\ pc[r] = "idle"
    /\ data' = [data EXCEPT ![r] = doc]
    /\ pc' = [pc EXCEPT ![r] = "connect"]
    /\ UNCHANGED << s3_client, blob_service_client, tables, s3, blob, cur, txn,
                    read_rows, at_select, processed_data, json_data, response,
                    events, copy_vars >>

Connect(r) ==
    /\ pc[r] = "connect"
    /\ pc' = [pc EXCEPT ![r] = "insert"]
    /\ cur' = [cur EXCEPT ![r] = [i |-> 1, s |-> 1]]
    /\ UNCHANGED << s3_client, blob_service_client, tables, s3, blob, data, txn,
                    read_rows, at_select, processed_data, json_data, response,
                    events, copy_vars >>

\* pymysql.connect raises
ConnectFail(r) ==
    /\ pc[r] = "connect"
    /\ pc' = [pc EXCEPT ![r] = "done"]
    /\ Respond(r, 500, "store")
    /\ UNCHANGED << s3_client, blob_service_client, tables, s3, blob, data, cur,
                    txn, read_rows, at_select, processed_data, json_data,
                    events, copy_vars >>

\* one cursor.execute(INSERT ...) of the loops
Execute(r) ==
    /\ pc[r] = "insert"
    /\ cur[r].i <= Len(Work(r))
    /\ LET item == Work(r)[cur[r].i]
           stmt == Stmts[cur[r].s]
       IN  IF KeyError(item.policy, stmt) \/ Rejected(item, stmt)
           THEN Abort(r)
           ELSE /\ txn' = [txn EXCEPT ![r][stmt] =
                              Append(@, InsertedRow(r, item, stmt))]
                /\ cur' = [cur EXCEPT ![r] =
                              IF cur[r].s < Len(Stmts)
                              THEN [i |-> cur[r].i, s |-> cur[r].s + 1]
                              ELSE [i |-> cur[r].i + 1, s |-> 1]]
                /\ events' = [events EXCEPT ![r] =
                                 IF Has(@, "execute") THEN @ ELSE Append(@, "execute")]
                /\ UNCHANGED << s3_client, blob_service_client, tables, s3, blob,
                                pc, data, read_rows, at_select, processed_data,
                                json_data, response, copy_vars >>

\* the server or the connection fails during an execute or the commit
StorageError(r) ==
    /\ pc[r] = "insert"
    /\ Abort(r)

Commit(r) ==
    /\ pc[r] = "insert"
    /\ cur[r].i > Len(Work(r))
    /\ tables' = Committed(tables, txn[r])
    /\ txn' = [txn EXCEPT ![r] = NoRows]
    /\ events' = [events EXCEPT ![r] = Append(@, "commit")]
    /\ pc' = [pc EXCEPT ![r] = "select"]
    /\ UNCHANGED << s3_client, blob_service_client, s3, blob, data, cur,
                    read_rows, at_select, processed_data, json_data, response,
                    copy_vars >>

\* step 3: the SELECT on a second connection, and fetchall
Select(r) ==
    /\ pc[r] = "select"
    /\ LET rows == Visible(tables, txn, r)
       IN  /\ read_rows' = [read_rows EXCEPT ![r] = rows]
           /\ processed_data' = [processed_data EXCEPT ![r] =
                                    [i \in 1..Len(rows) |-> SelectRow(rows[i])]]
    /\ at_select' = [at_select EXCEPT ![r] =
                        [committed |-> {q \in Reqs : Has(events[q], "commit")},
                         aborted |-> {q \in Reqs : Has(events[q], "rollback")},
                         writing |-> {q \in Reqs : txn[q]["policy"] # << >>}]]
    /\ events' = [events EXCEPT ![r] = Append(@, "select")]
    /\ pc' = [pc EXCEPT ![r] = "upload"]
    /\ UNCHANGED << s3_client, blob_service_client, tables, s3, blob, data, cur,
                    txn, json_data, response, copy_vars >>

\* the second connection or the SELECT fails
SelectFail(r) ==
    /\ pc[r] = "select"
    /\ pc' = [pc EXCEPT ![r] = "done"]
    /\ Respond(r, 500, "compute")
    /\ UNCHANGED << s3_client, blob_service_client, tables, s3, blob, data, cur,
                    txn, read_rows, at_select, processed_data, json_data,
                    events, copy_vars >>

\* steps 4 and 5 with put_object succeeding, or with no S3 client
Upload(r) ==
    /\ pc[r] = "upload"
    /\ json_data' = [json_data EXCEPT ![r] = JsonDumps(processed_data[r])]
    /\ pc' = [pc EXCEPT ![r] = "done"]
    /\ IF s3_client
       THEN /\ s3' = Put(s3, PublishKey, JsonDumps(processed_data[r]))
            /\ events' = [events EXCEPT ![r] = Append(@, "put")]
            /\ Respond(r, 200, "done")
       ELSE /\ Respond(r, 500, "publish")
            /\ UNCHANGED << s3, events >>
    /\ UNCHANGED << s3_client, blob_service_client, tables, blob, data, cur,
                    txn, read_rows, at_select, processed_data, copy_vars >>

\* steps 4 and 5 with put_object raising
UploadFail(r) ==
    /\ pc[r] = "upload"
    /\ s3_client
    /\ json_data' = [json_data EXCEPT ![r] = JsonDumps(processed_data[r])]
    /\ events' = [events EXCEPT ![r] = Append(@, "put_failed")]
    /\ pc' = [pc EXCEPT ![r] = "done"]
    /\ Respond(r, 500, "publish")
    /\ UNCHANGED << s3_client, blob_service_client, tables, s3, blob, data, cur,
                    txn, read_rows, at_select, processed_data, copy_vars >>

(***************************************************************************)
(* /fetch-from-s3                                                          *)
(***************************************************************************)
CRespond(c, code, stage) ==
    cresponse' = [cresponse EXCEPT ![c] = [code |-> code, stage |-> stage]]

\* variant: a missing key reads as an empty object
GetObjectOrEmpty(store, key) ==
    [ok |-> TRUE, body |-> IF key \in DOMAIN store THEN store[key] ELSE << >>]

\* s3_client.get_object: the body, or an error when the key does not exist
GetObject(store, key) ==
    IF key \in DOMAIN store
    THEN [ok |-> TRUE, body |-> store[key]]
    ELSE [ok |-> FALSE, body |-> << >>]

\* no JSON body, or no 'file_key' in it
CBadRequest(c) ==
    /\ cpc[c] = "idle"
    /\ cpc' = [cpc EXCEPT ![c] = "done"]
    /\ CRespond(c, 400, "request")
    /\ UNCHANGED << s3_client, blob_service_client, tables, s3, blob,
                    ingest_vars, file_key, file_data, cevents >>

CReceive(c, key) ==
    /\ cpc[c] = "idle"
    /\ file_key' = [file_key EXCEPT ![c] = key]
    /\ IF s3_client
       THEN /\ cpc' = [cpc EXCEPT ![c] = "fetch"]
            /\ UNCHANGED cresponse
       ELSE /\ cpc' = [cpc EXCEPT ![c] = "done"]
            /\ CRespond(c, 500, "fetch")
    /\ UNCHANGED << s3_client, blob_service_client, tables, s3, blob,
                    ingest_vars, file_data, cevents >>

\* step 2: get_object and read
Fetch(c) ==
    /\ cpc[c] = "fetch"
    /\ cevents' = [cevents EXCEPT ![c] = Append(@,
                      IF file_key[c] \in DOMAIN s3 THEN "get:found" ELSE "get:missing")]
    /\ LET got == GetObject(s3, file_key[c])
       IN  IF ~got.ok
           THEN /\ cpc' = [cpc EXCEPT ![c] = "done"]
                /\ CRespond(c, 500, "fetch")
                /\ UNCHANGED file_data
           ELSE /\ file_data' = [file_data EXCEPT ![c] = got.body]
                /\ IF blob_service_client
                   THEN /\ cpc' = [cpc EXCEPT ![c] = "upload"]
                        /\ UNCHANGED cresponse
                   ELSE /\ cpc' = [cpc EXCEPT ![c] = "done"]
                        /\ CRespond(c, 500, "copy")
    /\ UNCHANGED << s3_client, blob_service_client, tables, s3, blob,
                    ingest_vars, file_key >>

\* get_object or the read fails though the key exists
FetchFail(c) ==
    /\ cpc[c] = "fetch"
    /\ file_key[c] \in DOMAIN s3
    /\ cevents' = [cevents EXCEPT ![c] = Append(@, "get:failed")]
    /\ cpc' = [cpc EXCEPT ![c] = "done"]
    /\ CRespond(c, 500, "fetch")
    /\ UNCHANGED << s3_client, blob_service_client, tables, s3, blob,
                    ingest_vars, file_key, file_data >>

\* step 3: upload_blob(file_data, overwrite=True)
CUpload(c) ==
    /\ cpc[c] = "upload"
    /\ blob' = Put(blob, file_key[c], file_data[c])
    /\ cevents' = [cevents EXCEPT ![c] = Append(@, "upload_blob")]
    /\ cpc' = [cpc EXCEPT ![c] = "done"]
    /\ CRespond(c, 200, "done")
    /\ UNCHANGED << s3_client, blob_service_client, tables, s3, ingest_vars,
                    file_key, file_data >>

\* upload_blob raises; the store keeps what it had
CUploadFail(c) ==
    /\ cpc[c] = "upload"
    /\ cevents' = [cevents EXCEPT ![c] = Append(@, "upload_blob_failed")]
    /\ cpc' = [cpc EXCEPT ![c] = "done"]
    /\ CRespond(c, 500, "copy")
    /\ UNCHANGED << s3_client, blob_service_client, tables, s3, blob,
                    ingest_vars, file_key, file_data >>

(***************************************************************************)
(* Specifications.                                                         *)
(***************************************************************************)
Step(r) ==
    \/ Connect(r)
    \/ ConnectFail(r)
    \/ Execute(r)
    \/ StorageError(r)
    \/ Commit(r)
    \/ Select(r)
    \/ SelectFail(r)
    \/ Upload(r)
    \/ UploadFail(r)

Next ==
    \/ \E r \in Reqs : NoData(r)
    \/ \E r \in Reqs : InvalidJson(r)
    \/ \E r \in Reqs : \E doc \in Docs : Receive(r, doc)
    \/ \E r \in Reqs : Step(r)

Spec == Init /\ [][Next]_vars

\* the copy requests, beside one request that publishes
NextCopy ==
    \/ \E doc \in Docs : Receive(1, doc)
    \/ Step(1)
    \/ \E c \in Copies : CBadRequest(c)
    \/ \E c \in Copies : \E key \in Keys : CReceive(c, key)
    \/ \E c \in Copies : Fetch(c)
    \/ \E c \in Copies : FetchFail(c)
    \/ \E c \in Copies : CUpload(c)
    \/ \E c \in Copies : CUploadFail(c)

SpecCopy == Init /\ [][NextCopy]_vars

\* one request alone, over the grid of one-policy documents
NextCalc ==
    \/ \E doc \in CalcDocs : Receive(1, doc)
    \/ Step(1)

SpecCalc == Init /\ [][NextCalc]_vars

(***************************************************************************)
(* Properties.                                                             *)
(***************************************************************************)
NumPolicies(doc) == Len(Flatten(doc.branches))
RowsOf(rows, b) == Cardinality({i \in 1..Len(rows) : rows[i].batch = b})
Count(rows, id) == Cardinality({i \in 1..Len(rows) : rows[i].policy_id = id})
IsPrefix(a, b) == Len(a) <= Len(b) /\ SubSeq(b, 1, Len(a)) = a
Published(r) == Has(events[r], "put")
FailedPartway(r) == Has(events[r], "rollback") /\ Has(events[r], "execute")
\* a JSON input number (thousandths) and a published number back in hundredths
JsonNumber(m) == [w |-> m \div 1000, u |-> (m % 1000) * 1000]
CentsOf(x) == x.w * 100 + (x.u \div 10000)
\* thousandths rounded to the nearest hundredth, halves away from zero
RoundedToHundredths(m) ==
    IF m >= 0 THEN (m + 5) \div 10 ELSE 0 - ((5 - m) \div 10)

\* C1: a batch whose write failed after at least one INSERT has no row in any
\* of the four tables, and no SELECT that ran after the failure read a row of it.
C1_BatchAtomicity ==
    \A r \in Reqs :
        FailedPartway(r) =>
            /\ \A t \in TableNames : RowsOf(tables[t], r) = 0
            /\ \A q \in Reqs :
                   r \in at_select[q].aborted => RowsOf(read_rows[q], r) = 0

C1_Witness ==
    \E r, q \in Reqs :
        /\ r # q
        /\ FailedPartway(r)
        /\ r \in at_select[q].aborted
        /\ Published(q)
        /\ Len(read_rows[q]) > 0

\* C2: every SELECT of the policy table read, of each batch, either all of
\* its policy rows or none of them.
C2_WriteIsolation ==
    \A q \in Reqs :
        Has(events[q], "select") =>
            \A b \in Reqs :
                RowsOf(read_rows[q], b) \in {0, NumPolicies(data[b])}

C2_Witness ==
    \E q, b \in Reqs :
        /\ b \in at_select[q].writing
        /\ RowsOf(read_rows[q], b) = 0
        /\ RowsOf(read_rows[q], q) = NumPolicies(data[q])
        /\ NumPolicies(data[q]) > 0

\* the multiplier as the claim states it: the three tiers by exact value
TierMultiplier(risk_factor) ==
    CASE risk_factor = "low" -> 10
      [] risk_factor = "medium" -> 15
      [] risk_factor = "high" -> 20
      [] OTHER -> 10

\* C3: every published record has calculated_premium = base_premium +
\* vehicle_damage * m - base_premium * discount / 100 on its own fields, m
\* being 1.0, 1.5, 2.0 for 'low', 'medium', 'high' and 1.0 for any other value.
C3_PremiumFormula ==
    \A r \in Reqs :
        Published(r) =>
            \A i \in 1..Len(json_data[r]) :
                LET rec == json_data[r][i]
                IN  rec.calculated_premium =
                        Premium(CentsOf(rec.base_premium),
                                CentsOf(rec.vehicle_damage),
                                TierMultiplier(rec.risk_factor),
                                CentsOf(rec.discount))

\* C4: every published record is 'Granted' exactly when its
\* calculated_premium is below 10000 and its risk_factor is 'low' or
\* 'medium', and 'Rejected' otherwise.
C4_GrantRule ==
    \A r \in Reqs :
        Published(r) =>
            \A i \in 1..Len(json_data[r]) :
                LET rec == json_data[r][i]
                IN  rec.insurance_granted =
                        IF rec.calculated_premium.w < 10000
                           /\ rec.risk_factor \in {"low", "medium"}
                        THEN "Granted"
                        ELSE "Rejected"

\* C5 as stated: after a successful request, every submitted policy has a
\* published record with its policy_id, policy_type and discount verbatim.
C5_RoundTripVerbatim ==
    \A r \in Reqs :
        Published(r) =>
            \A k \in 1..Len(Work(r)) :
                LET policy == Work(r)[k].policy
                IN  \E i \in 1..Len(json_data[r]) :
                        /\ json_data[r][i].policy_id = policy.policy_id
                        /\ json_data[r][i].policy_type = policy.policy_type
                        /\ json_data[r][i].discount =
                               JsonNumber(policy.coverage_info.discount)

\* C5 amended: after a successful request, every submitted policy has a
\* published record with its policy_id and policy_type verbatim and with its
\* discount rounded to two fractional digits.
C5_RoundTripRounded ==
    \A r \in Reqs :
        Published(r) =>
            \A k \in 1..Len(Work(r)) :
                LET policy == Work(r)[k].policy
                    d == policy.coverage_info.discount
                IN  \E i \in 1..Len(json_data[r]) :
                        /\ json_data[r][i].policy_id = policy.policy_id
                        /\ json_data[r][i].policy_type = policy.policy_type
                        /\ json_data[r][i].discount =
                               JsonNumber(RoundedToHundredths(d) * 10)

C5_Witness ==
    \E r \in Reqs :
        /\ Published(r)
        /\ \E k \in 1..Len(Work(r)) :
               Work(r)[k].policy.coverage_info.discount % 10 # 0
        /\ Len(json_data[r]) > Len(Work(r))

RECURSIVE SumPolicies(_)
SumPolicies(S) ==
    IF S = {} THEN 0
    ELSE LET b == CHOOSE x \in S : TRUE
         IN  NumPolicies(data[b]) + SumPolicies(S \ {b})

\* C6 as stated: a request with an empty branches list that publishes,
\* publishes the empty array, whatever the tables held.
C6_EmptyPublishesEmpty ==
    \A r \in Reqs :
        (pc[r] # "idle" /\ data[r].branches = << >> /\ Published(r)) =>
            json_data[r] = << >>

\* C6 amended: a request with an empty branches list adds no row to any
\* table, and what it publishes has one record per policy of every batch
\* committed before its SELECT: the empty array exactly when there is none.
C6_EmptyBatchPublishesStored ==
    \A r \in Reqs :
        (pc[r] # "idle" /\ data[r].branches = << >>) =>
            /\ \A t \in TableNames :
                   RowsOf(tables[t], r) = 0 /\ RowsOf(txn[r][t], r) = 0
            /\ Published(r) =>
                   /\ Len(json_data[r]) = SumPolicies(at_select[r].committed)
                   /\ json_data[r] = << >> <=>
                          \A b \in at_select[r].committed :
                              NumPolicies(data[b]) = 0

C6_Witness ==
    \E r \in Reqs :
        /\ pc[r] = "done"
        /\ data[r].branches = << >>
        /\ Published(r)
        /\ json_data[r] # << >>

\* C7: a copy whose source key does not exist in store A ends with an error
\* and never calls upload_blob, so it changes nothing in store B.
C7_MissingKeyLeavesB ==
    \A c \in Copies :
        Has(cevents[c], "get:missing") =>
            /\ cpc[c] = "done"
            /\ cresponse[c].code = 500
            /\ ~Has(cevents[c], "upload_blob")
            /\ ~Has(cevents[c], "upload_blob_failed")

C7_Witness ==
    \E c \in Copies :
        /\ Has(cevents[c], "get:missing")
        /\ file_key[c] \in DOMAIN blob
        /\ blob[file_key[c]] = OldObject

\* C8: a request calls put_object only after its commit; a request whose
\* write failed publishes nothing; a failed publish answers with an error
\* and the batch's committed rows stay in the tables.
C8_PublishAfterCommit ==
    \A r \in Reqs :
        /\ (Published(r) \/ Has(events[r], "put_failed")) =>
               Has(events[r], "commit") /\ ~Has(events[r], "rollback")
        /\ Has(events[r], "rollback") =>
               pc[r] = "done" /\ response[r].code = 500
        /\ (pc[r] = "done" /\ response[r].stage = "publish") =>
               /\ response[r].code = 500
               /\ \A t \in TableNames :
                      RowsOf(tables[t], r) = NumPolicies(data[r])

C8_Witness ==
    \E r, q \in Reqs :
        /\ Has(events[r], "put_failed")
        /\ NumPolicies(data[r]) > 0
        /\ pc[r] = "done"
        /\ response[r].code = 500
        /\ FailedPartway(q)
        /\ ~Published(q)

TableIds ==
    UNION { {tables[t][i].policy_id : i \in 1..Len(tables[t])} : t \in TableNames }

SameIds ==
    \A id \in TableIds :
        \A t \in TableNames : Count(tables[t], id) = Count(tables["policy"], id)

RowsKept == \A t \in TableNames : IsPrefix(tables[t], tables'[t])

\* C9: in every state the four tables hold the same multiset of policy_id
\* values, and no step updates or deletes a row: each table only grows at
\* its end.
C9_SameIdsAppendOnly == []SameIds /\ [][RowsKept]_vars

C9_Witness ==
    /\ \E r \in Reqs : FailedPartway(r)
    /\ \A t \in TableNames : Len(tables[t]) >= 2

\* C10: the document of a successful request has one record per policy row
\* its SELECT read, in that order, and those rows are the rows of every batch
\* committed by then, whichever request wrote them.
C10_OneRecordPerStoredRow ==
    \A r \in Reqs :
        Published(r) =>
            /\ Len(json_data[r]) = Len(read_rows[r])
            /\ \A i \in 1..Len(read_rows[r]) :
                   /\ i <= Len(json_data[r])
                   /\ json_data[r][i].policy_id = read_rows[r][i].policy_id
                   /\ json_data[r][i].policy_type = read_rows[r][i].policy_type
                   /\ json_data[r][i].risk_factor = read_rows[r][i].risk_factor
            /\ \A b \in Reqs :
                   RowsOf(read_rows[r], b) =
                       IF b \in at_select[r].committed
                       THEN NumPolicies(data[b]) ELSE 0

C10_Witness ==
    \E r, q \in Reqs :
        /\ r # q
        /\ Published(r)
        /\ data[r] = data[q]
        /\ q \in at_select[r].committed
        /\ \E i, j \in 1..Len(json_data[r]) :
               /\ i < j
               /\ json_data[r][i].policy_id = json_data[r][j].policy_id
               /\ read_rows[r][i].batch # read_rows[r][j].batch

====
